---- MODULE Spec2Model ----
(***************************************************************************)
(* Access control, sharing, uniqueness and cascade behaviour of the farm   *)
(* management backend (src/project/api).  The persisted state is the users *)
(* collection, the farms collection and the measurement collections; every *)
(* HTTP handler is an action.  Spec (farm handlers), SpecShare (sharing)    *)
(* and SpecEntries (measurement handlers) serve one request at a time;     *)
(* SpecConc and SpecRace interleave the storage calls (the awaits) of two  *)
(* requests on the measurement collections.  SpecMetrics follows the raw   *)
(* inputs and cached derived fields of one record; SpecCascade deletes a   *)
(* farm while bulk deletes of its records may fail.  SpecRevoke follows    *)
(* reads after a share is revoked; SpecUsers serves the account handlers   *)
(* one at a time; SpecUserRace, SpecFarmRace and SpecOrphan interleave the *)
(* storage calls of two account requests, of two farm requests, and of     *)
(* create_entry with delete_farm.                                          *)
(***************************************************************************)
EXTENDS Integers, Sequences, FiniteSets, TLC

VARIABLES users, farms, recs, nextFarm, nextRec, resp, req

vars == <<users, farms, recs, nextFarm, nextRec, resp, req>>

(* ------------------------------ bounds --------------------------------- *)
MaxFarms == 2
MaxRecs == 2
MaxDate == 1

(* ------------------------------ strings -------------------------------- *)
(* An e-mail is a sequence of characters, so that strip(), lower() and the *)
(* ordering used by sorted() are computed and not assumed.                 *)
Chars == {" ", "A", "B", "a", "b", "c", "r", "v"}

Ord(c) ==
    CASE c = " " -> 32 [] c = "A" -> 65 [] c = "B" -> 66 [] c = "a" -> 97
      [] c = "b" -> 98 [] c = "c" -> 99 [] c = "r" -> 114 [] c = "v" -> 118

LowerChar(c) == CASE c = "A" -> "a" [] c = "B" -> "b" [] OTHER -> c

Lower(s) == [i \in 1..Len(s) |-> LowerChar(s[i])]

RECURSIVE LStrip(_)
LStrip(s) == IF s # <<>> /\ Head(s) = " " THEN LStrip(Tail(s)) ELSE s

RECURSIVE RStrip(_)
RStrip(s) ==
    IF s # <<>> /\ s[Len(s)] = " " THEN RStrip(SubSeq(s, 1, Len(s) - 1)) ELSE s

Strip(s) == RStrip(LStrip(s))

RECURSIVE StrLess(_, _)
StrLess(s, t) ==
    IF t = <<>> THEN FALSE
    ELSE IF s = <<>> THEN TRUE
    ELSE IF Ord(Head(s)) # Ord(Head(t)) THEN Ord(Head(s)) < Ord(Head(t))
    ELSE StrLess(Tail(s), Tail(t))

Range(q) == {q[i] : i \in DOMAIN q}

(* sorted(S) for a set S of strings *)
RECURSIVE Sorted(_)
Sorted(S) ==
    IF S = {} THEN <<>>
    ELSE LET m == CHOOSE x \in S : \A y \in S \ {x} : StrLess(x, y)
         IN <<m>> \o Sorted(S \ {m})

IsSortedNoDup(q) == \A i \in 1..(Len(q) - 1) : StrLess(q[i], q[i + 1])

(* _normalize_emails: sorted({str(e).strip().lower() for e in emails       *)
(*                            if e and str(e).strip()})                    *)
normalize_emails(emails) ==
    IF emails = <<>> THEN <<>>
    ELSE Sorted({Lower(Strip(emails[i])) : i \in {j \in DOMAIN emails :
                    emails[j] # <<>> /\ Strip(emails[j]) # <<>>}})

(* ------------------------------- users --------------------------------- *)
ua == <<"a">>
ub == <<"b">>
ur == <<"r">>
uv == <<"v">>

(* the users collection: a document has an id (the _id of the storage),    *)
(* its e-mail and its four flags                                           *)
InitUsers ==
    { [id |-> 1, email |-> ua, is_admin |-> FALSE, read_only |-> FALSE,
       is_active |-> TRUE, is_authorized |-> TRUE],
      [id |-> 2, email |-> ub, is_admin |-> FALSE, read_only |-> FALSE,
       is_active |-> TRUE, is_authorized |-> TRUE],
      [id |-> 3, email |-> ur, is_admin |-> TRUE, read_only |-> FALSE,
       is_active |-> TRUE, is_authorized |-> TRUE],
      [id |-> 4, email |-> uv, is_admin |-> FALSE, read_only |-> TRUE,
       is_active |-> TRUE, is_authorized |-> TRUE] }

(* User.find_one(User.email == e) is truthy *)
UserExists(e) == \E u \in users : u.email = e

(* get_current_user + auth_guard: the status the decorator answers with,   *)
(* 200 when the view function is entered.                                  *)
auth_guard(u, require_admin, allow_read_only) ==
    IF ~(u \in users) \/ ~u.is_active THEN 401
    ELSE IF ~u.is_authorized THEN 403
    ELSE IF require_admin /\ ~u.is_admin THEN 403
    ELSE IF ~allow_read_only /\ u.read_only THEN 403
    ELSE 200

(* ------------------------------- farms --------------------------------- *)
(* farms maps the id of every persisted Farm document to its fields; an id *)
(* is never reused.  Id 0 stands for a malformed id string.                *)
FarmIds == 1..MaxFarms
BadId == 0
FarmIdInputs == {BadId} \cup FarmIds
Names == {<<"a">>, <<"b">>}

(* The outcome of a handler on the current state: HTTP status, ids of the *)
(* documents in the response body (empty on every error), and the farms    *)
(* and measurement collections it leaves behind.                           *)
Out(status, body, F, R) == [status |-> status, body |-> body, farms |-> F, recs |-> R]
Fail(status) == Out(status, <<>>, farms, recs)

FarmName == [f \in DOMAIN farms |-> farms[f].name]

(* sort("name"): all orders of the farm ids S that are ascending in name *)
SortedByName(S) ==
    {q \in [1..Cardinality(S) -> S] :
        /\ Range(q) = S
        /\ \A i, j \in DOMAIN q : i < j => ~StrLess(FarmName[q[j]], FarmName[q[i]])}

(* variant of the filter below without its shared_with clause *)
OwnerOrSharedNoShared(doc, e) == doc.owner_email = e

(* the Mongo filter {"$or": [{"owner_email": e}, {"shared_with": e}]} *)
OwnerOrShared(doc, e) == doc.owner_email = e \/ e \in Range(doc.shared_with)

(* get_doc_by_id(Farm, id): 400 on a malformed id, else the document or None *)
FarmLookup(f) == IF f = BadId THEN 400 ELSE IF f \in DOMAIN farms THEN 200 ELSE 404

create_farm_out(u, name) ==
    LET g == auth_guard(u, FALSE, FALSE) IN
    IF g # 200 THEN Fail(g)
    ELSE Out(200, <<nextFarm>>,
             farms @@ (nextFarm :>
                 [name |-> name, owner_email |-> u.email, shared_with |-> <<>>]),
             recs)

(* list_farms_for_user: the possible answers (one per order of equal names) *)
list_farms_outs(u) ==
    LET g == auth_guard(u, FALSE, TRUE) IN
    IF g # 200 THEN {Fail(g)}
    ELSE LET items == IF u.is_admin THEN DOMAIN farms
                      ELSE {f \in DOMAIN farms : OwnerOrShared(farms[f], u.email)}
         IN {Out(200, q, farms, recs) : q \in SortedByName(items)}

(* variant of the permission test below that ignores shared_with *)
GetFarmAllowedOwnerOnly(u, doc) == u.is_admin \/ u.email = doc.owner_email

(* get_farm: "not is_admin and user_email != doc.owner_email and           *)
(* user_email not in doc.shared_with" answers 403                          *)
GetFarmAllowed(u, doc) ==
    u.is_admin \/ u.email = doc.owner_email \/ u.email \in Range(doc.shared_with)

get_farm_out(u, f) ==
    LET g == auth_guard(u, FALSE, TRUE) IN
    IF g # 200 THEN Fail(g)
    ELSE IF FarmLookup(f) # 200 THEN Fail(FarmLookup(f))
    ELSE IF ~GetFarmAllowed(u, farms[f]) THEN Fail(403)
    ELSE Out(200, <<f>>, farms, recs)

(* variant of the owner gate below that also admits an admin *)
IsOwnerOrAdmin(u, doc) == u.email = doc.owner_email \/ u.is_admin

(* the owner gate of update_farm, delete_farm and share_farm *)
IsOwner(u, doc) == u.email = doc.owner_email

(* variant of FarmUpdates below for a FarmUpdate schema that also declares *)
(* owner_email                                                             *)
FarmUpdatesWithOwner ==
    {[k \in {} |-> 0]} \cup {[name |-> n] : n \in Names}
        \cup {[owner_email |-> e] : e \in {ua, ub}}

(* updates is FarmUpdate.model_dump(exclude_unset=True): a function from   *)
(* the fields that were sent to their values                               *)
FarmUpdates == {[k \in {} |-> 0]} \cup {[name |-> n] : n \in Names}

(* apply_updates(doc, data) and the setattr loop of update_farm *)
apply_updates(doc, data) ==
    [k \in DOMAIN doc |-> IF k \in DOMAIN data THEN data[k] ELSE doc[k]]

update_farm_out(u, f, updates) ==
    LET g == auth_guard(u, FALSE, FALSE) IN
    IF g # 200 THEN Fail(g)
    ELSE IF FarmLookup(f) # 200 THEN Fail(FarmLookup(f))
    ELSE IF ~IsOwner(u, farms[f]) THEN Fail(403)
    ELSE Out(200, <<f>>, [farms EXCEPT ![f] = apply_updates(farms[f], updates)], recs)

(* valid_add: the loop "for e in add_n: if await User.find_one(...)" *)
RECURSIVE valid_add(_)
valid_add(add_n) ==
    IF add_n = <<>> THEN <<>>
    ELSE IF UserExists(Head(add_n)) THEN <<Head(add_n)>> \o valid_add(Tail(add_n))
    ELSE valid_add(Tail(add_n))

(* variant of add_n below without the "e != owner_email" filter *)
add_n_keep_owner(add, owner_email) == normalize_emails(add)

(* add_n = [e for e in _normalize_emails(add) if e != owner_email] *)
add_n(add, owner_email) ==
    SelectSeq(normalize_emails(add), LAMBDA e : e # owner_email)

(* variant of new_shared below that ignores the removes *)
new_shared_keep(shared_with, valid, remove_n) ==
    Sorted(Range(shared_with) \cup Range(valid))

(* variant of new_shared below that removes before it adds *)
new_shared_remove_first(shared_with, valid, remove_n) ==
    Sorted((Range(shared_with) \ Range(remove_n)) \cup Range(valid))

(* current = set(shared_with); current.update(valid_add);                  *)
(* current.difference_update(remove_n); shared_with = sorted(current)      *)
new_shared(shared_with, valid, remove_n) ==
    Sorted((Range(shared_with) \cup Range(valid)) \ Range(remove_n))

share_farm_out(u, f, add, remove) ==
    LET g == auth_guard(u, FALSE, FALSE) IN
    IF g # 200 THEN Fail(g)
    ELSE IF FarmLookup(f) # 200 THEN Fail(FarmLookup(f))
    ELSE IF ~IsOwner(u, farms[f]) THEN Fail(403)
    ELSE LET valid == valid_add(add_n(add, u.email))
             remove_n == normalize_emails(remove)
         IN Out(200, <<f>>,
                [farms EXCEPT ![f].shared_with =
                    new_shared(farms[f].shared_with, valid, remove_n)],
                recs)

(* ----------------------------- derived metrics ------------------------- *)
(* None stands for Python's None in a numeric field; every number a schema *)
(* admits is >= 0 (Field(ge=0))                                            *)
None == -1

MaxAmount == 2

(* the values of a raw numeric input *)
Amounts == {None} \cup (0..MaxAmount)

(* "v or 0" and "int(v or 0)" *)
OrZero(v) == IF v = None THEN 0 ELSE v

(* the truth value of an optional number: None and 0 are false *)
Truthy(v) == v # None /\ v # 0

Abs(n) == IF n < 0 THEN -n ELSE n

RECURSIVE GCD(_, _)
GCD(a, b) == IF b = 0 THEN a ELSE GCD(b, a % b)

(* a float result n/d (d > 0) is kept exactly, in lowest terms *)
Frac(n, d) == LET g == GCD(Abs(n), d) IN <<n \div g, d \div g>>

Zero == Frac(0, 1)

(* round(a / b) to the nearest integer, ties to even; a >= 0, b > 0 *)
RoundDiv(a, b) ==
    LET q == a \div b
        r == a % b
    IN IF 2 * r < b THEN q
       ELSE IF 2 * r > b THEN q + 1
       ELSE IF q % 2 = 0 THEN q ELSE q + 1

Max(a, b) == IF a >= b THEN a ELSE b
Min(a, b) == IF a <= b THEN a ELSE b

(* DietCost._compute_phase: float(cost_per_ton or 0.0) * float(days or 0) *)
_compute_phase(cost_per_ton, days) == OrZero(cost_per_ton) * OrZero(days)

(* manure_score _compute_total: the sum of "int(score or 0)"; the modelled  *)
(* buckets are score_2 and score_3, the other three are 0                  *)
_compute_total(doc) == OrZero(doc.score_2) + OrZero(doc.score_3)

(* the total _to_read works with: the cached one, or the sum when the      *)
(* cached one is not positive                                              *)
read_total(doc) ==
    LET total == Max(OrZero(doc.total), 0) IN
    IF total <= 0 THEN _compute_total(doc) ELSE total

(* pct(v) of _to_read, in tenths of a percent:                             *)
(* round((float(v) / float(total)) * 100.0, 1) if total > 0 else 0.0       *)
pct(v, total) == IF total > 0 THEN RoundDiv(1000 * v, total) ELSE 0

(* float(v) raises TypeError for v = None; it is evaluated when total > 0  *)
pct_raises(v, total) == total > 0 /\ v = None

(* _to_read raises: one of its pct calls does *)
_to_read_raises(doc) ==
    \/ pct_raises(doc.score_2, read_total(doc))
    \/ pct_raises(doc.score_3, read_total(doc))

(* the derived fields of ManureScoreRead that _to_read fills in; pct_n in  *)
(* tenths and desirable_pct = round(min(100.0, p3 + (p2/2)), 2) in         *)
(* hundredths of a percent                                                 *)
_to_read(doc) ==
    LET total == read_total(doc)
        p2 == pct(doc.score_2, total)
        p3 == pct(doc.score_3, total)
    IN [total |-> total, pct_2 |-> p2, pct_3 |-> p3,
        desirable_pct |-> Min(10000, 10 * p3 + 5 * p2)]

(* factory _sum3 *)
_sum3(a, b, c) == OrZero(a) + OrZero(b) + OrZero(c)

(* pct_ratio of factory _recompute *)
pct_ratio(num, den) ==
    IF OrZero(den) = 0 THEN Zero ELSE Frac(100 * OrZero(num), OrZero(den))

(* Factory._ensure_supply_dev, the field validator of the model: it tests  *)
(* "planned is None"; _recompute overwrites what it computes               *)
_ensure_supply_dev(planned, sup_total) ==
    IF planned # None /\ sup_total # 0
    THEN Frac(100 * (planned - sup_total), sup_total)
    ELSE Zero

(* "if doc.planned_supply_total and float(sup_total) != 0" of _recompute:  *)
(* 100.0 * ((planned / sup_total) - 1.0), else 0.0                         *)
supply_deviation_pct(planned, sup_total) ==
    IF Truthy(planned) /\ sup_total # 0
    THEN Frac(100 * (planned - sup_total), sup_total)
    ELSE Zero

(* "if doc.planned_manufacturing_total and float(...) != 0" of _recompute: *)
(* 100.0 * ((man_total / planned) - 1.0), else 0.0                         *)
loading_deviation_pct(man_total, planned) ==
    IF Truthy(planned) /\ planned # 0
    THEN Frac(100 * (man_total - planned), planned)
    ELSE Zero

(* factory _recompute; the modelled phases are adaptation and growth, the  *)
(* termination phase is 0                                                  *)
_recompute(doc) ==
    LET man_total == _sum3(doc.manufacturing_adaptation, doc.manufacturing_growth, 0)
        sup_total == _sum3(doc.supply_adaptation, doc.supply_growth, 0)
    IN [doc EXCEPT
          !.manufacturing_day_total = man_total,
          !.loading_deviation_pct =
              loading_deviation_pct(man_total, doc.planned_manufacturing_total),
          !.supply_day_total = sup_total,
          !.adaptation_ratio_pct =
              pct_ratio(doc.supply_adaptation, doc.manufacturing_adaptation),
          !.growth_ratio_pct = pct_ratio(doc.supply_growth, doc.manufacturing_growth),
          !.day_ratio_pct = pct_ratio(sup_total, man_total),
          !.supply_deviation_pct =
              supply_deviation_pct(doc.planned_supply_total, sup_total)]

(* variant of _compute_days_without_use below without max(0, ...) *)
_compute_days_without_use_signed(date_val, closing) ==
    IF date_val = None \/ closing = None THEN 0 ELSE date_val - closing

(* storage_inspection _compute_days_without_use; a date is its day number  *)
(* and "not date" holds of None only                                       *)
_compute_days_without_use(date_val, closing) ==
    IF date_val = None \/ closing = None THEN 0
    ELSE Max(0, date_val - closing)

(* storage_inspection _recompute *)
_recompute_storage(doc) ==
    [doc EXCEPT !.time_without_use_days =
                    _compute_days_without_use(doc.date, doc.closing_date)]

(* --------------------------- measurement records ----------------------- *)
(* One collection per resource; the modelled resources cover the kinds     *)
(* found in src/project/api/models: with and without a unique index, with  *)
(* and without a discriminator, removed or not by delete_farm, with and    *)
(* without cached derived fields.                                          *)
Resources ==
    {"diet_cost", "manure_score", "factory", "feed_dry_matter", "storage_inspection"}

(* Settings.indexes holds a unique IndexModel *)
HasUniqueIndex(res) ==
    res \in {"diet_cost", "factory", "feed_dry_matter", "storage_inspection"}

(* the uniqueness key has a third component (diet, ingredient) *)
HasDiscriminator(res) == res \in {"diet_cost", "manure_score", "storage_inspection"}

(* the collections delete_farm removes from: ManureScore, FeedDryMatter,   *)
(* DietCost                                                                *)
Cascaded == {"manure_score", "feed_dry_matter", "diet_cost"}

RecIds == 1..MaxRecs
Dates == 1..MaxDate
Discs(res) == IF HasDiscriminator(res) THEN {"none", "x"} ELSE {"none"}

Col(res) == {d \in recs : d.res = res}

KeyOf(d) == <<d.farm_id, d.date, d.disc>>

(* variant of KeyTaken below: only an update looks for the key *)
KeyTakenOnUpdateOnly(col, d, self) ==
    self # BadId /\ \E e \in col : e.id # self /\ KeyOf(e) = KeyOf(d)

(* find_one({farm_id, date, discriminator [, _id: {$ne: id}]}) is truthy;  *)
(* self is the excluded id, BadId when none is excluded                    *)
KeyTaken(col, d, self) ==
    \E e \in col : e.id # self /\ KeyOf(e) = KeyOf(d)

(* the storage engine raises DuplicateKeyError on insert or save of d *)
DuplicateKey(res, col, d) ==
    HasUniqueIndex(res) /\ \E e \in col : e.id # d.id /\ KeyOf(e) = KeyOf(d)

(* variant of FarmRefStatus below: only a malformed id answers 400 *)
FarmRefStatusFormatOnly(f) == IF f = BadId THEN 400 ELSE 200

(* Farm.get(payload.farm_id) of create_entry: an exception (malformed id)  *)
(* and None both answer 400                                                *)
FarmRefStatus(f) == IF f \in DOMAIN farms THEN 200 ELSE 400

(* get_doc_by_id(<resource>, id) *)
RecLookup(res, id) ==
    IF id = BadId THEN 400
    ELSE IF \E d \in Col(res) : d.id = id THEN 200 ELSE 404

Rec(res, id) == CHOOSE d \in Col(res) : d.id = id

(* the raw inputs of a validated <Resource>Create payload.  ManureScoreBase *)
(* turns a null score into 0 (_num_ok); the other schemas keep null.  The  *)
(* growth phase of a factory payload is 0 or 1.                            *)
Raws(res) ==
    CASE res = "diet_cost" ->
           [cost_mn_per_ton : Amounts, time_in_diet_days : Amounts]
      [] res = "manure_score" ->
           [score_2 : 0..MaxAmount, score_3 : 0..MaxAmount]
      [] res = "factory" ->
           [manufacturing_adaptation : Amounts, manufacturing_growth : {0, 1},
            planned_manufacturing_total : Amounts,
            supply_adaptation : Amounts, supply_growth : {0, 1},
            planned_supply_total : Amounts]
      [] res = "feed_dry_matter" -> [adaptation : Amounts]
      [] res = "storage_inspection" -> [closing_date : {None} \cup (0..(MaxDate + 1))]

(* the raw inputs of a payload that sends none: the schema's defaults *)
DefaultRaw(res) ==
    CASE res = "diet_cost" -> [cost_mn_per_ton |-> None, time_in_diet_days |-> None]
      [] res = "manure_score" -> [score_2 |-> 0, score_3 |-> 0]
      [] res = "factory" ->
           [manufacturing_adaptation |-> 0, manufacturing_growth |-> 0,
            planned_manufacturing_total |-> None,
            supply_adaptation |-> 0, supply_growth |-> 0,
            planned_supply_total |-> None]
      [] res = "feed_dry_matter" -> [adaptation |-> None]
      [] res = "storage_inspection" -> [closing_date |-> None]

Keys(res) == [farm_id : FarmIdInputs, date : Dates, disc : Discs(res)]

Payloads(res) == {k @@ r : k \in Keys(res), r \in Raws(res)}

(* the payloads that send the key fields only *)
PlainPayloads(res) == {k @@ DefaultRaw(res) : k \in Keys(res)}

(* a worker that holds no document *)
NoDoc ==
    [id |-> BadId, res |-> "none", farm_id |-> BadId, date |-> 0, disc |-> "none"]

Idle == [pc |-> "idle", op |-> "none", res |-> "none", doc |-> NoDoc, status |-> 0]

(* the derived fields of a Factory document before _recompute: defaults *)
FactoryDerived ==
    [manufacturing_day_total |-> 0, loading_deviation_pct |-> Zero,
     supply_day_total |-> 0, adaptation_ratio_pct |-> Zero,
     growth_ratio_pct |-> Zero, day_ratio_pct |-> Zero,
     supply_deviation_pct |-> Zero]

(* building the document of create_entry raises: DietCostCreate has no     *)
(* attribute cost_mn_per_phase (AttributeError); the Factory model does   *)
(* not validate with None in a field declared int (ValidationError)        *)
ConstructRaises(res, payload) ==
    \/ res = "diet_cost"
    \/ /\ res = "factory"
       /\ None \in {payload.manufacturing_adaptation, payload.manufacturing_growth,
                    payload.supply_adaptation, payload.supply_growth}

(* the document create_entry builds from a payload, with its cached fields *)
Constructed(res, payload) ==
    CASE res = "diet_cost" ->
           payload @@ [cost_mn_per_phase |->
               _compute_phase(payload.cost_mn_per_ton, payload.time_in_diet_days)]
      [] res = "manure_score" -> payload @@ [total |-> _compute_total(payload)]
      [] res = "factory" ->
           IF ConstructRaises(res, payload) THEN payload @@ FactoryDerived
           ELSE _recompute(payload @@ FactoryDerived)
      [] res = "feed_dry_matter" -> payload
      [] res = "storage_inspection" ->
           _recompute_storage(payload @@ [time_without_use_days |-> 0])

NewDoc(res, payload) ==
    [id |-> nextRec, res |-> res] @@ Constructed(res, payload)

(* variant of Recomputed below in which the update of a manure score does  *)
(* not assign doc.total                                                    *)
RecomputedKeepTotal(res, doc) ==
    CASE res = "factory" -> _recompute(doc)
      [] res = "storage_inspection" -> _recompute_storage(doc)
      [] OTHER -> doc

(* what update_entry does to the cached fields between apply_updates and   *)
(* doc.save(): _recompute (factory, storage_inspection), doc.total =       *)
(* _compute_total(doc) (manure_score), nothing (diet_cost, feed_dry_matter) *)
Recomputed(res, doc) ==
    CASE res = "manure_score" -> [doc EXCEPT !.total = _compute_total(doc)]
      [] res = "factory" -> _recompute(doc)
      [] res = "storage_inspection" -> _recompute_storage(doc)
      [] OTHER -> doc

(* building the read-view of a stored document raises *)
ReadRaises(doc) == doc.res = "manure_score" /\ _to_read_raises(doc)

(* the read-view of a stored document: its fields and, for a manure score, *)
(* the derived fields _to_read computes                                    *)
ReadView(doc) ==
    IF doc.res = "manure_score"
    THEN [k \in DOMAIN doc \ {"res", "total"} |-> doc[k]] @@ _to_read(doc)
    ELSE [k \in DOMAIN doc \ {"res"} |-> doc[k]]

create_entry_out(u, res, payload) ==
    LET g == auth_guard(u, FALSE, FALSE)
        doc == NewDoc(res, payload)
    IN
    IF g # 200 THEN Fail(g)
    ELSE IF FarmRefStatus(payload.farm_id) # 200 THEN Fail(400)
    ELSE IF KeyTaken(Col(res), doc, BadId) THEN Fail(409)
    ELSE IF ConstructRaises(res, payload) THEN Fail(500)
    ELSE IF DuplicateKey(res, Col(res), doc) THEN Fail(409)
    ELSE IF ReadRaises(doc) THEN Out(500, <<>>, farms, recs \cup {doc})
    ELSE Out(200, <<doc.id>>, farms, recs \cup {doc})

(* the raw fields an update may send, by resource: <Resource>Update; each  *)
(* is Optional, so null is among its values                                *)
RawUpdates(res) ==
    CASE res = "diet_cost" ->
           {[cost_mn_per_ton |-> v] : v \in Amounts}
           \cup {[time_in_diet_days |-> v] : v \in Amounts}
      [] res = "manure_score" ->
           {[score_2 |-> v] : v \in Amounts} \cup {[score_3 |-> v] : v \in Amounts}
      [] res = "factory" ->
           {[manufacturing_adaptation |-> v] : v \in Amounts}
           \cup {[manufacturing_growth |-> v] : v \in {None, 0, 1}}
           \cup {[planned_manufacturing_total |-> v] : v \in Amounts}
           \cup {[supply_adaptation |-> v] : v \in Amounts}
           \cup {[supply_growth |-> v] : v \in {None, 0, 1}}
           \cup {[planned_supply_total |-> v] : v \in Amounts}
      [] res = "feed_dry_matter" -> {[adaptation |-> v] : v \in Amounts}
      [] res = "storage_inspection" ->
           {[closing_date |-> v] : v \in {None} \cup (0..(MaxDate + 1))}

(* the discriminator an update may send (the Update schemas have neither   *)
(* farm_id nor date)                                                       *)
DiscUpdates(res) ==
    IF HasDiscriminator(res) THEN {[disc |-> d] : d \in Discs(res)} ELSE {}

Updates(res) ==
    {[k \in {} |-> 0]} \cup RawUpdates(res) \cup DiscUpdates(res)
    \cup {r @@ d : r \in RawUpdates(res), d \in DiscUpdates(res)}

(* doc.save(): replace the stored document with this id, or insert it *)
Saved(col, doc) == {d \in col : d.id # doc.id} \cup {doc}

update_entry_out(u, res, id, updates) ==
    LET g == auth_guard(u, FALSE, FALSE) IN
    IF g # 200 THEN Fail(g)
    ELSE IF RecLookup(res, id) # 200 THEN Fail(RecLookup(res, id))
    ELSE LET doc == Recomputed(res, apply_updates(Rec(res, id), updates)) IN
         IF KeyTaken(Col(res), doc, doc.id) THEN Fail(409)
         ELSE IF DuplicateKey(res, Col(res), doc) THEN Fail(409)
         ELSE IF ReadRaises(doc) THEN Out(500, <<>>, farms, Saved(recs, doc))
         ELSE Out(200, <<id>>, farms, Saved(recs, doc))

delete_entry_out(u, res, id) ==
    LET g == auth_guard(u, FALSE, FALSE) IN
    IF g # 200 THEN Fail(g)
    ELSE IF RecLookup(res, id) # 200 THEN Fail(RecLookup(res, id))
    ELSE Out(200, <<>>, farms, recs \ {Rec(res, id)})

(* variant of EntryReadAllowed below that tests "farm and (...)": a record *)
(* whose farm is not found passes the check                                *)
EntryReadAllowedFarmMissing(u, f) ==
    u.is_admin \/ f \notin DOMAIN farms \/ OwnerOrShared(farms[f], u.email)

(* the farm check of get_entry: an admin skips it; otherwise "not farm or  *)
(* (user.email != farm.owner_email and user.email not in farm.shared_with)" *)
(* answers 403                                                             *)
EntryReadAllowed(u, f) ==
    u.is_admin \/ (f \in DOMAIN farms /\ OwnerOrShared(farms[f], u.email))

get_entry_out(u, res, id) ==
    LET g == auth_guard(u, FALSE, TRUE) IN
    IF g # 200 THEN Fail(g)
    ELSE IF RecLookup(res, id) # 200 THEN Fail(RecLookup(res, id))
    ELSE IF ~EntryReadAllowed(u, Rec(res, id).farm_id) THEN Fail(403)
    ELSE IF ReadRaises(Rec(res, id)) THEN Fail(500)
    ELSE Out(200, <<id>>, farms, recs)

(* get_accessible_farm_ids(user): the empty set for an admin (the signal   *)
(* for "no restriction"), else the ids of the farms owned by or shared     *)
(* with the user                                                           *)
UNRESTRICTED == {}

get_accessible_farm_ids(u) ==
    IF u.is_admin THEN UNRESTRICTED
    ELSE {f \in DOMAIN farms : OwnerOrShared(farms[f], u.email)}

(* an optional query parameter is the empty set (absent) or a singleton;   *)
(* "if farm_id:" and "if diet:" test that it was given                     *)
Opt(S) == {{}} \cup {{x} : x \in S}

(* build_date_range_filter(start, end) applied to a date *)
InDateRange(start, end, date) ==
    /\ \A a \in start : a <= date
    /\ \A b \in end : date <= b

(* variant of FarmClause below without the ["__none__"] case: an empty     *)
(* accessible set adds no farm_id clause                                   *)
FarmClauseNoEmptyCase(u, farm_id) ==
    IF u.is_admin
    THEN IF farm_id # {} THEN [all |-> FALSE, ids |-> farm_id]
         ELSE [all |-> TRUE, ids |-> {}]
    ELSE LET accessible_ids == get_accessible_farm_ids(u) IN
         IF farm_id # {}
         THEN IF ~(farm_id \subseteq accessible_ids)
              THEN [all |-> FALSE, ids |-> {}]
              ELSE [all |-> FALSE, ids |-> farm_id]
         ELSE IF accessible_ids # {} THEN [all |-> FALSE, ids |-> accessible_ids]
              ELSE [all |-> TRUE, ids |-> {}]

(* the farm_id clause of the list query: the farm ids it admits, or all    *)
(* when the query has no such clause; -1 stands for "__none__"             *)
FarmClause(u, farm_id) ==
    IF u.is_admin
    THEN IF farm_id # {} THEN [all |-> FALSE, ids |-> farm_id]
         ELSE [all |-> TRUE, ids |-> {}]
    ELSE LET accessible_ids == get_accessible_farm_ids(u) IN
         IF farm_id # {}
         THEN IF ~(farm_id \subseteq accessible_ids)
              THEN [all |-> FALSE, ids |-> {}]
              ELSE [all |-> FALSE, ids |-> farm_id]
         ELSE [all |-> FALSE,
               ids |-> IF accessible_ids # {} THEN accessible_ids ELSE {-1}]

ListItems(u, res, farm_id, disc, start, end) ==
    LET c == FarmClause(u, farm_id) IN
    {d \in Col(res) :
        /\ \A k \in disc : d.disc = k
        /\ InDateRange(start, end, d.date)
        /\ (c.all \/ d.farm_id \in c.ids)}

RecDate == [i \in {d.id : d \in recs} |-> (CHOOSE d \in recs : d.id = i).date]

(* sort("date"): all orders of the record ids S that are ascending in date *)
SortedByDate(S) ==
    {q \in [1..Cardinality(S) -> S] :
        /\ Range(q) = S
        /\ \A i, j \in DOMAIN q : i < j => RecDate[q[i]] <= RecDate[q[j]]}

(* list_entries: the possible answers (one per order of equal dates) *)
list_entries_outs(u, res, farm_id, disc, start, end) ==
    LET g == auth_guard(u, FALSE, TRUE) IN
    IF g # 200 THEN {Fail(g)}
    ELSE IF \E d \in ListItems(u, res, farm_id, disc, start, end) : ReadRaises(d)
    THEN {Fail(500)}
    ELSE {Out(200, q, farms, recs) :
            q \in SortedByDate({d.id : d \in ListItems(u, res, farm_id, disc, start, end)})}

(* variant of delete_farm_out below without the try/except around the     *)
(* bulk deletes: the first one that raises ends the request, after the     *)
(* collections before it (ManureScore, FeedDryMatter, DietCost in this     *)
(* order) were emptied of the farm's records                               *)
delete_farm_out_unguarded(u, f, faults) ==
    LET g == auth_guard(u, FALSE, FALSE)
        done == IF "manure_score" \in faults THEN {}
                ELSE IF "feed_dry_matter" \in faults THEN {"manure_score"}
                ELSE IF "diet_cost" \in faults THEN {"manure_score", "feed_dry_matter"}
                ELSE Cascaded
    IN
    IF g # 200 THEN Fail(g)
    ELSE IF FarmLookup(f) # 200 THEN Fail(FarmLookup(f))
    ELSE IF ~IsOwner(u, farms[f]) THEN Fail(403)
    ELSE IF faults # {}
    THEN Out(500, <<>>, farms, {d \in recs : ~(d.res \in done /\ d.farm_id = f)})
    ELSE Out(200, <<>>,
             [g2 \in DOMAIN farms \ {f} |-> farms[g2]],
             {d \in recs : ~(d.res \in Cascaded /\ d.farm_id = f)})

(* delete_farm: faults is the set of dependent collections whose bulk      *)
(* delete raises; the exception is swallowed and the cascade goes on       *)
delete_farm_out(u, f, faults) ==
    LET g == auth_guard(u, FALSE, FALSE) IN
    IF g # 200 THEN Fail(g)
    ELSE IF FarmLookup(f) # 200 THEN Fail(FarmLookup(f))
    ELSE IF ~IsOwner(u, farms[f]) THEN Fail(403)
    ELSE Out(200, <<>>,
             [g2 \in DOMAIN farms \ {f} |-> farms[g2]],
             {d \in recs : ~(d.res \in Cascaded \ faults /\ d.farm_id = f)})

(* ------------------------------ the handlers --------------------------- *)
(* a request is answered and its outcome persisted *)
Commit(op, o) ==
    /\ resp' = [op |-> op, status |-> o.status, body |-> o.body]
    /\ farms' = o.farms
    /\ recs' = o.recs
    /\ UNCHANGED <<users, req>>

create_farm(u, name) ==
    LET o == create_farm_out(u, name) IN
    /\ nextFarm <= MaxFarms
    /\ Commit("create_farm", o)
    /\ nextFarm' = IF o.status = 200 THEN nextFarm + 1 ELSE nextFarm
    /\ UNCHANGED nextRec

list_farms(u) ==
    /\ \E o \in list_farms_outs(u) : Commit("list_farms", o)
    /\ UNCHANGED <<nextFarm, nextRec>>

get_farm(u, f) ==
    /\ Commit("get_farm", get_farm_out(u, f))
    /\ UNCHANGED <<nextFarm, nextRec>>

update_farm(u, f, updates) ==
    /\ Commit("update_farm", update_farm_out(u, f, updates))
    /\ UNCHANGED <<nextFarm, nextRec>>

share_farm(u, f, add, remove) ==
    /\ Commit("share_farm", share_farm_out(u, f, add, remove))
    /\ UNCHANGED <<nextFarm, nextRec>>

delete_farm(u, f, faults) ==
    /\ Commit("delete_farm", delete_farm_out(u, f, faults))
    /\ UNCHANGED <<nextFarm, nextRec>>

create_entry(u, res, payload) ==
    LET o == create_entry_out(u, res, payload) IN
    /\ o.recs # recs => nextRec <= MaxRecs
    /\ Commit("create_entry", o)
    /\ nextRec' = IF o.recs # recs THEN nextRec + 1 ELSE nextRec
    /\ UNCHANGED nextFarm

update_entry(u, res, id, updates) ==
    /\ Commit("update_entry", update_entry_out(u, res, id, updates))
    /\ UNCHANGED <<nextFarm, nextRec>>

delete_entry(u, res, id) ==
    /\ Commit("delete_entry", delete_entry_out(u, res, id))
    /\ UNCHANGED <<nextFarm, nextRec>>

get_entry(u, res, id) ==
    /\ Commit("get_entry", get_entry_out(u, res, id))
    /\ UNCHANGED <<nextFarm, nextRec>>

list_entries(u, res, farm_id, disc, start, end) ==
    /\ \E o \in list_entries_outs(u, res, farm_id, disc, start, end) :
          Commit("list_entries", o)
    /\ UNCHANGED <<nextFarm, nextRec>>

(* ----------------------------- specification --------------------------- *)
Procs == {1, 2}

Init ==
    /\ users = InitUsers
    /\ farms = [f \in {} |-> 0]
    /\ recs = {}
    /\ nextFarm = 1
    /\ nextRec = 1
    /\ resp = [op |-> "none", status |-> 0, body |-> <<>>]
    /\ req = [p \in Procs |-> Idle]

(* raw e-mails of a share request: "a", "b" and "v" name users, "c" does   *)
(* not, " " is blank                                                       *)
RawEmails == {<<"a">>, <<"b">>, <<" ", "B">>, <<"c">>, <<" ">>}
AddLists == {<<>>, << <<" ", "B">>, <<"a">> >>, << <<"c">> >>}
RemoveLists == {<<>>, << <<"b", " ">> >>}

(* Spec: every farm handler, from the empty database; one measurement      *)
(* record can be created so that the farm handlers act on a farm that has  *)
(* a record                                                                *)
BasicPayloads(res) == {p \in PlainPayloads(res) : p.disc = "none"}

Next ==
    \/ \E u \in users, n \in Names : create_farm(u, n)
    \/ \E u \in users : list_farms(u)
    \/ \E u \in users, f \in FarmIdInputs : get_farm(u, f)
    \/ \E u \in users, f \in FarmIdInputs, up \in FarmUpdates : update_farm(u, f, up)
    \/ \E u \in users, f \in FarmIdInputs, add \in AddLists, remove \in RemoveLists :
          share_farm(u, f, add, remove)
    \/ \E u \in users, f \in FarmIdInputs, faults \in {{}, {"manure_score"}} :
          delete_farm(u, f, faults)
    \/ \E u \in users, p \in BasicPayloads("manure_score") :
          recs = {} /\ create_entry(u, "manure_score", p)

Spec == Init /\ [][Next]_vars

(* SpecShare: the sequences of create_farm, update_farm and share_farm,    *)
(* with add lists of up to two raw e-mails                                 *)
ShareAdds == {<<>>} \cup {<<e>> : e \in RawEmails} \cup {<<e, g>> : e, g \in RawEmails}
ShareRemoves == {<<>>, << <<"A">> >>, << <<"b", " ">> >>, << <<"c">>, <<" ">> >>}

NextShare ==
    \/ \E u \in users, n \in Names : create_farm(u, n)
    \/ \E u \in users, f \in FarmIdInputs, up \in FarmUpdates : update_farm(u, f, up)
    \/ \E u \in users, f \in FarmIdInputs, add \in ShareAdds, remove \in ShareRemoves :
          share_farm(u, f, add, remove)

SpecShare == Init /\ [][NextShare]_vars

(* SpecEntries: the measurement handlers on a database that holds two      *)
(* farms: farm 1 of a shared with b, farm 2 of b shared with v             *)
InitFarms ==
    (1 :> [name |-> <<"a">>, owner_email |-> ua, shared_with |-> <<ub>>])
    @@ (2 :> [name |-> <<"b">>, owner_email |-> ub, shared_with |-> <<uv>>])

InitEntries ==
    /\ users = InitUsers
    /\ farms = InitFarms
    /\ recs = {}
    /\ nextFarm = MaxFarms + 1
    /\ nextRec = 1
    /\ resp = [op |-> "none", status |-> 0, body |-> <<>>]
    /\ req = [p \in Procs |-> Idle]

(* updates of one field: the discriminator where the resource has one,    *)
(* else a measured value                                                   *)
SingleUpdates(res) ==
    CASE HasDiscriminator(res) -> DiscUpdates(res)
      [] res = "factory" -> {[supply_adaptation |-> v] : v \in {0, 1}}
      [] res = "feed_dry_matter" -> {[adaptation |-> v] : v \in {0, 1}}

NextEntries ==
    \/ \E u \in users, res \in Resources : \E p \in PlainPayloads(res) :
          create_entry(u, res, p)
    \/ \E u \in users, res \in Resources, id \in {BadId} \cup RecIds :
          \E up \in SingleUpdates(res) : update_entry(u, res, id, up)
    \/ \E u \in users, res \in Resources, id \in {BadId} \cup RecIds : delete_entry(u, res, id)
    \/ \E u \in users, res \in Resources, id \in {BadId} \cup RecIds : get_entry(u, res, id)
    \/ \E u \in users, res \in Resources, f \in Opt(FarmIdInputs) :
          list_entries(u, res, f, {}, {}, {})
    \/ \E u \in users, f \in FarmIdInputs : get_farm(u, f)
    \/ \E u \in users, f \in FarmIdInputs : delete_farm(u, f, {})

SpecEntries == InitEntries /\ [][NextEntries]_vars

(* ------------------- interleaved measurement requests ------------------ *)
(* A request handler is a coroutine: between two awaited storage calls     *)
(* the event loop may run the storage calls of another request.  req[p] is *)
(* the request that worker p is serving: the storage call it is about to   *)
(* make (pc), the document it holds in memory, and, when it is idle, the   *)
(* status of its last answer.                                              *)
Done(status) == [Idle EXCEPT !.status = status]

At(pc, op, res, doc) ==
    [pc |-> pc, op |-> op, res |-> res, doc |-> doc, status |-> 0]

Pending(p, pc) == req[p].pc = pc

(* create_entry up to "farm = await Farm.get(payload.farm_id)" *)
create_begin(p, u, res, payload) ==
    /\ Pending(p, "idle")
    /\ nextRec + Cardinality({q \in Procs : req[q].op = "create" /\ req[q].pc # "idle"})
          <= MaxRecs
    /\ req' = [req EXCEPT ![p] =
          IF auth_guard(u, FALSE, FALSE) # 200
          THEN Done(auth_guard(u, FALSE, FALSE))
          ELSE IF FarmRefStatus(payload.farm_id) # 200 THEN Done(400)
          ELSE At("create_find", "create", res, [NewDoc(res, payload) EXCEPT !.id = BadId])]
    /\ UNCHANGED <<users, farms, recs, nextFarm, nextRec, resp>>

(* "existing = await <Resource>.find_one(...)": the pre-check, and the     *)
(* construction of the document that follows it                            *)
create_find(p) ==
    /\ Pending(p, "create_find")
    /\ req' = [req EXCEPT ![p] =
          IF KeyTaken(Col(req[p].res), req[p].doc, BadId)
          THEN Done(409)
          ELSE IF ConstructRaises(req[p].res, req[p].doc) THEN Done(500)
          ELSE [req[p] EXCEPT !.pc = "create_insert"]]
    /\ UNCHANGED <<users, farms, recs, nextFarm, nextRec, resp>>

(* "await doc.insert()", DuplicateKeyError answered 409 *)
create_insert(p) ==
    LET doc == [req[p].doc EXCEPT !.id = nextRec] IN
    /\ Pending(p, "create_insert")
    /\ IF DuplicateKey(req[p].res, Col(req[p].res), doc)
       THEN /\ req' = [req EXCEPT ![p] = Done(409)]
            /\ UNCHANGED <<recs, nextRec>>
       ELSE /\ req' = [req EXCEPT ![p] = Done(200)]
            /\ recs' = recs \cup {doc}
            /\ nextRec' = nextRec + 1
    /\ UNCHANGED <<users, farms, nextFarm, resp>>

(* update_entry up to "doc = await get_doc_by_id(...)" and apply_updates *)
update_begin(p, u, res, id, updates) ==
    /\ Pending(p, "idle")
    /\ req' = [req EXCEPT ![p] =
          IF auth_guard(u, FALSE, FALSE) # 200
          THEN Done(auth_guard(u, FALSE, FALSE))
          ELSE IF RecLookup(res, id) # 200 THEN Done(RecLookup(res, id))
          ELSE At("update_find", "update", res, apply_updates(Rec(res, id), updates))]
    /\ UNCHANGED <<users, farms, recs, nextFarm, nextRec, resp>>

(* "conflict = await <Resource>.find_one({..., _id: {$ne: doc.id}})" *)
update_find(p) ==
    /\ Pending(p, "update_find")
    /\ req' = [req EXCEPT ![p] =
          IF KeyTaken(Col(req[p].res), req[p].doc, req[p].doc.id)
          THEN Done(409)
          ELSE [req[p] EXCEPT !.pc = "update_save"]]
    /\ UNCHANGED <<users, farms, recs, nextFarm, nextRec, resp>>

(* "await doc.save()", DuplicateKeyError answered 409 *)
update_save(p) ==
    /\ Pending(p, "update_save")
    /\ IF DuplicateKey(req[p].res, Col(req[p].res), req[p].doc)
       THEN /\ req' = [req EXCEPT ![p] = Done(409)]
            /\ UNCHANGED recs
       ELSE /\ req' = [req EXCEPT ![p] = Done(200)]
            /\ recs' = Saved(recs, req[p].doc)
    /\ UNCHANGED <<users, farms, nextFarm, nextRec, resp>>

(* delete_entry up to "doc = await get_doc_by_id(...)" *)
delete_begin(p, u, res, id) ==
    /\ Pending(p, "idle")
    /\ req' = [req EXCEPT ![p] =
          IF auth_guard(u, FALSE, FALSE) # 200
          THEN Done(auth_guard(u, FALSE, FALSE))
          ELSE IF RecLookup(res, id) # 200 THEN Done(RecLookup(res, id))
          ELSE At("delete_delete", "delete", res, Rec(res, id))]
    /\ UNCHANGED <<users, farms, recs, nextFarm, nextRec, resp>>

(* "await doc.delete()" *)
delete_delete(p) ==
    /\ Pending(p, "delete_delete")
    /\ req' = [req EXCEPT ![p] = Done(200)]
    /\ recs' = {d \in recs : d.id # req[p].doc.id}
    /\ UNCHANGED <<users, farms, nextFarm, nextRec, resp>>

(* SpecConc: two workers serve create, update and delete requests on the   *)
(* measurement collections of the two farms of InitFarms                   *)
ConcPayloads(res) == {pl \in PlainPayloads(res) : pl.farm_id # 2}

NextConc ==
    \/ \E p \in Procs, u \in users, res \in Resources :
          \E pl \in ConcPayloads(res) : create_begin(p, u, res, pl)
    \/ \E p \in Procs : create_find(p)
    \/ \E p \in Procs : create_insert(p)
    \/ \E p \in Procs, u \in users, res \in Resources, id \in {BadId} \cup RecIds :
          \E up \in SingleUpdates(res) : update_begin(p, u, res, id, up)
    \/ \E p \in Procs : update_find(p)
    \/ \E p \in Procs : update_save(p)
    \/ \E p \in Procs, u \in users, res \in Resources, id \in {BadId} \cup RecIds :
          delete_begin(p, u, res, id)
    \/ \E p \in Procs : delete_delete(p)

SpecConc == InitEntries /\ [][NextConc]_vars

(* SpecRace: both workers have admitted a create request (the user passed *)
(* auth_guard, the farm exists) for the same (farm_id, date,               *)
(* discriminator) of one resource, and neither has reached its pre-check   *)
RaceDocs(res) ==
    {[NewDoc(res, pl) EXCEPT !.id = BadId] :
        pl \in {x \in PlainPayloads(res) : x.farm_id # BadId}}

InitRace ==
    /\ users = InitUsers
    /\ farms = InitFarms
    /\ recs = {}
    /\ nextFarm = MaxFarms + 1
    /\ nextRec = 1
    /\ resp = [op |-> "none", status |-> 0, body |-> <<>>]
    /\ \E res \in Resources : \E d, e \in RaceDocs(res) :
          /\ KeyOf(d) = KeyOf(e)
          /\ req = (1 :> At("create_find", "create", res, d))
                   @@ (2 :> At("create_find", "create", res, e))

NextRace ==
    \/ \E p \in Procs : create_find(p)
    \/ \E p \in Procs : create_insert(p)

SpecRace == InitRace /\ [][NextRace]_vars

(* SpecMetrics: one measurement record at a time, of farm 1, created from  *)
(* every raw input of Raws and updated one raw field at a time, null       *)
(* included.  create_entry cannot store a diet_cost document (it raises),  *)
(* so the diet_cost collection stays empty.                                *)
Writers == {u \in users : u.email = ua}

MetricKeys == [farm_id |-> 1, date |-> 1, disc |-> "none"]

MetricPayloads(res) == {MetricKeys @@ r : r \in Raws(res)}

InitMetrics ==
    /\ users = InitUsers
    /\ farms = InitFarms
    /\ recs = {}
    /\ nextRec = 1
    /\ nextFarm = MaxFarms + 1
    /\ resp = [op |-> "none", status |-> 0, body |-> <<>>]
    /\ req = [p \in Procs |-> Idle]

NextMetrics ==
    \/ \E u \in Writers, res \in Resources : \E p \in MetricPayloads(res) :
          recs = {} /\ create_entry(u, res, p)
    \/ \E u \in Writers, res \in Resources, id \in RecIds :
          \E up \in RawUpdates(res) : update_entry(u, res, id, up)

SpecMetrics == InitMetrics /\ [][NextMetrics]_vars

(* SpecCascade: records are created in the two farms of InitFarms and the  *)
(* farms are deleted, with every set of dependent collections whose bulk   *)
(* delete raises                                                           *)
CascadeResources == {"manure_score", "feed_dry_matter", "factory"}

NextCascade ==
    \/ \E u \in users, res \in CascadeResources : \E p \in BasicPayloads(res) :
          create_entry(u, res, p)
    \/ \E u \in users, f \in FarmIdInputs, faults \in SUBSET Cascaded :
          delete_farm(u, f, faults)

SpecCascade == InitEntries /\ [][NextCascade]_vars

(* SpecRevoke: shares are granted and revoked on the farms of InitFarms    *)
(* (farm 1 is shared with b, farm 2 with v from the start) while records   *)
(* are created and read                                                    *)
RevokeResources == {"manure_score", "feed_dry_matter"}

NextRevoke ==
    \/ \E u \in users, f \in FarmIds, add \in AddLists, remove \in RemoveLists \cup {<<uv>>} :
          share_farm(u, f, add, remove)
    \/ \E u \in users, res \in RevokeResources : \E p \in BasicPayloads(res) :
          create_entry(u, res, p)
    \/ \E u \in users, res \in RevokeResources, id \in RecIds : get_entry(u, res, id)
    \/ \E u \in users, res \in RevokeResources, f \in Opt(FarmIds) :
          list_entries(u, res, f, {}, {}, {})
    \/ \E u \in users, f \in FarmIds : get_farm(u, f)

SpecRevoke == InitEntries /\ [][NextRevoke]_vars

(* ------------------------------ user accounts -------------------------- *)
(* The handlers of v1/authentication and v1/admin that write the users     *)
(* collection.  Of a User document the model keeps the e-mail and the four *)
(* flags; name, role, apps and the password hash are not read by any       *)
(* access rule.                                                            *)
MaxUsers == 6
UserIds == 1..MaxUsers
uc == <<"c">>

(* the outcome of a user handler: HTTP status and the users collection it  *)
(* leaves behind                                                           *)
UOut(status, U) == [status |-> status, users |-> U]
UFail(status) == UOut(status, users)

(* User.find_one(User.email == e): the documents it may return *)
FindUsers(e) == {x \in users : x.email = e}

(* get_current_user: the user of the token is looked up and must be active *)
get_current_user(u) == IF u \in users /\ u.is_active THEN 200 ELSE 401

(* the _id a new User document gets: one no stored document has *)
FreshUserId == CHOOSE i \in UserIds : \A x \in users : x.id # i

(* UserCreate: name is Optional and defaults to None (the empty sequence   *)
(* here); the flags are plain booleans                                     *)
NoName == <<>>
UserCreates ==
    [email : {ua, uc}, name : {NoName, <<"n">>}, is_admin : BOOLEAN,
     read_only : BOOLEAN, is_active : BOOLEAN, is_authorized : BOOLEAN]

(* User(email=..., name=payload.name, ...): User.name is a required str,   *)
(* so a payload without a name does not validate                           *)
UserConstructRaises(payload) == payload.name = NoName

NewUser(payload) ==
    [id |-> FreshUserId, email |-> payload.email, is_admin |-> payload.is_admin,
     read_only |-> payload.read_only, is_active |-> payload.is_active,
     is_authorized |-> payload.is_authorized]

(* create_user: the route has no guard and no current user *)
create_user_out(payload) ==
    IF FindUsers(payload.email) # {} THEN UFail(400)
    ELSE IF UserConstructRaises(payload) THEN UFail(500)
    ELSE UOut(200, users \cup {NewUser(payload)})

(* UserUpdate as the handlers read it: a function from the flags that were *)
(* sent with a value to that value ("if updates.x is not None")            *)
Flags == {"is_admin", "read_only", "is_active", "is_authorized"}
UserUpdates ==
    {[k \in {} |-> FALSE]} \cup {[k \in {f} |-> b] : f \in Flags, b \in BOOLEAN}

(* user.save(): replace the stored document with this id, or insert it *)
SavedUser(U, doc) == {x \in U : x.id # doc.id} \cup {doc}

(* update_user: Depends(get_current_user) is its only gate; current_user   *)
(* is not read                                                             *)
update_user_outs(current_user, email, updates) ==
    IF get_current_user(current_user) # 200 THEN {UFail(401)}
    ELSE IF FindUsers(email) = {} THEN {UFail(404)}
    ELSE {UOut(200, SavedUser(users, apply_updates(db_user, updates))) :
             db_user \in FindUsers(email)}

(* the e-mail and password of a delete_user body: NoEmail when email is    *)
(* absent; the password is absent, the current user's, or another          *)
NoEmail == <<>>
Passwords == {"", "own", "other"}
verify_password(password) == password = "own"

delete_user_outs(current_user, email, password) ==
    LET target_email == IF email = NoEmail THEN current_user.email ELSE email IN
    IF get_current_user(current_user) # 200 THEN {UFail(401)}
    ELSE IF target_email # current_user.email /\ ~current_user.is_admin
    THEN {UFail(403)}
    ELSE IF target_email = current_user.email /\ password = "" THEN {UFail(400)}
    ELSE IF target_email = current_user.email /\ ~verify_password(password)
    THEN {UFail(401)}
    ELSE IF FindUsers(target_email) = {} THEN {UFail(404)}
    ELSE {UOut(200, users \ {db_user}) : db_user \in FindUsers(target_email)}

(* AdminUserUpdate: the flags of UserUpdate and new_email *)
AdminUserUpdates ==
    UserUpdates \cup {[new_email |-> e] : e \in {ua, uc}}
    \cup {[new_email |-> uc, is_admin |-> TRUE]}

(* the in-memory changes of admin_update_user to the document it found *)
admin_apply(user, updates) ==
    LET sent == [k \in DOMAIN updates \ {"new_email"} |-> updates[k]] IN
    [apply_updates(user, sent) EXCEPT
        !.email = IF "new_email" \in DOMAIN updates THEN updates.new_email ELSE @]

(* "if updates.new_email and updates.new_email != user.email: if await     *)
(* User.find_one(User.email == updates.new_email)" answers 400             *)
NewEmailTaken(user, updates) ==
    /\ "new_email" \in DOMAIN updates
    /\ updates.new_email # user.email
    /\ FindUsers(updates.new_email) # {}

admin_update_user_outs(current_user, email, updates) ==
    LET g == auth_guard(current_user, TRUE, FALSE) IN
    IF g # 200 THEN {UFail(g)}
    ELSE IF FindUsers(email) = {} THEN {UFail(404)}
    ELSE {IF NewEmailTaken(user, updates) THEN UFail(400)
          ELSE UOut(200, SavedUser(users, admin_apply(user, updates))) :
             user \in FindUsers(email)}

admin_delete_user_outs(current_user, email) ==
    LET g == auth_guard(current_user, TRUE, FALSE) IN
    IF g # 200 THEN {UFail(g)}
    ELSE IF FindUsers(email) = {} THEN {UFail(404)}
    ELSE {UOut(200, users \ {user}) : user \in FindUsers(email)}

(* a user request is answered and its outcome persisted *)
CommitUsers(op, o) ==
    /\ resp' = [op |-> op, status |-> o.status, body |-> <<>>]
    /\ users' = o.users
    /\ UNCHANGED <<farms, recs, nextFarm, nextRec, req>>

create_user(payload) ==
    /\ Cardinality(users) < MaxUsers
    /\ CommitUsers("create_user", create_user_out(payload))

update_user(current_user, email, updates) ==
    \E o \in update_user_outs(current_user, email, updates) :
        CommitUsers("update_user", o)

delete_user(current_user, email, password) ==
    \E o \in delete_user_outs(current_user, email, password) :
        CommitUsers("delete_user", o)

admin_update_user(current_user, email, updates) ==
    \E o \in admin_update_user_outs(current_user, email, updates) :
        CommitUsers("admin_update_user", o)

admin_delete_user(current_user, email) ==
    \E o \in admin_delete_user_outs(current_user, email) :
        CommitUsers("admin_delete_user", o)

(* SpecUsers: the user handlers on the database of InitEntries.  The      *)
(* accounts a and r stay as they are; v, b and a new account c are         *)
(* updated, renamed and deleted; one manure score can be created so that   *)
(* the writing endpoints have a record to act on                           *)
Emails == {ua, ub, ur, uv, uc}

NextUsers ==
    \/ \E payload \in UserCreates :
          /\ payload.is_active /\ payload.is_authorized /\ ~payload.read_only
          /\ create_user(payload)
    \/ \E cu \in users, e \in {uv, uc} :
          \E up \in {[is_admin |-> TRUE], [read_only |-> FALSE]} :
              update_user(cu, e, up)
    \/ \E cu \in users, e \in {ub, uc}, pw \in Passwords : delete_user(cu, e, pw)
    \/ \E cu \in users :
          \E up \in {[new_email |-> uc], [read_only |-> TRUE]} :
              admin_update_user(cu, ub, up)
    \/ \E cu \in users : admin_delete_user(cu, uc)
    \/ \E u \in users, p \in BasicPayloads("manure_score") :
          recs = {} /\ p.farm_id = 1 /\ create_entry(u, "manure_score", p)

SpecUsers == InitEntries /\ [][NextUsers]_vars

(* --------------------- interleaved user requests ----------------------- *)
(* create_user up to "await User.find_one(User.email == payload.email)"    *)
(* and the construction of the document                                    *)
create_user_find(p, payload) ==
    /\ Pending(p, "idle")
    /\ Cardinality(users)
          + Cardinality({q \in Procs : req[q].pc = "create_user_insert"}) < MaxUsers
    /\ req' = [req EXCEPT ![p] =
          IF FindUsers(payload.email) # {} THEN Done(400)
          ELSE IF UserConstructRaises(payload) THEN Done(500)
          ELSE At("create_user_insert", "create_user", "users",
                  [NewUser(payload) EXCEPT !.id = BadId])]
    /\ UNCHANGED <<users, farms, recs, nextFarm, nextRec, resp>>

(* "await user.insert()": the users collection has no unique index *)
create_user_insert(p) ==
    /\ Pending(p, "create_user_insert")
    /\ users' = users \cup {[req[p].doc EXCEPT !.id = FreshUserId]}
    /\ req' = [req EXCEPT ![p] = Done(200)]
    /\ UNCHANGED <<farms, recs, nextFarm, nextRec, resp>>

(* admin_update_user up to "user = await User.find_one(User.email ==       *)
(* email)"; the worker holds the document and the updates                  *)
admin_update_find(p, current_user, email, updates) ==
    /\ Pending(p, "idle")
    /\ \/ /\ auth_guard(current_user, TRUE, FALSE) # 200
          /\ req' = [req EXCEPT ![p] = Done(auth_guard(current_user, TRUE, FALSE))]
       \/ /\ auth_guard(current_user, TRUE, FALSE) = 200
          /\ FindUsers(email) = {}
          /\ req' = [req EXCEPT ![p] = Done(404)]
       \/ /\ auth_guard(current_user, TRUE, FALSE) = 200
          /\ \E user \in FindUsers(email) :
                req' = [req EXCEPT ![p] =
                    At("admin_update_check", "admin_update_user", "users",
                       [user |-> user, updates |-> updates])]
    /\ UNCHANGED <<users, farms, recs, nextFarm, nextRec, resp>>

(* "if await User.find_one(User.email == updates.new_email)" and the       *)
(* in-memory changes that follow it                                        *)
admin_update_check(p) ==
    /\ Pending(p, "admin_update_check")
    /\ req' = [req EXCEPT ![p] =
          IF NewEmailTaken(req[p].doc.user, req[p].doc.updates) THEN Done(400)
          ELSE At("admin_update_save", "admin_update_user", "users",
                  admin_apply(req[p].doc.user, req[p].doc.updates))]
    /\ UNCHANGED <<users, farms, recs, nextFarm, nextRec, resp>>

(* "await user.save()" *)
admin_update_save(p) ==
    /\ Pending(p, "admin_update_save")
    /\ users' = SavedUser(users, req[p].doc)
    /\ req' = [req EXCEPT ![p] = Done(200)]
    /\ UNCHANGED <<farms, recs, nextFarm, nextRec, resp>>

(* SpecUserRace: two workers serve create_user requests for the e-mails a  *)
(* (registered) and c (not registered) and admin_update_user requests that *)
(* rename a or b                                                           *)
RaceUserCreates ==
    {payload \in UserCreates :
        payload.is_active /\ payload.is_authorized /\ ~payload.read_only /\ ~payload.is_admin}

NextUserRace ==
    \/ \E p \in Procs, payload \in RaceUserCreates : create_user_find(p, payload)
    \/ \E p \in Procs : create_user_insert(p)
    \/ \E p \in Procs, cu \in users, e \in {ua, ub} :
          \E up \in {[new_email |-> uc], [new_email |-> ua]} :
              admin_update_find(p, cu, e, up)
    \/ \E p \in Procs : admin_update_check(p)
    \/ \E p \in Procs : admin_update_save(p)

SpecUserRace == InitEntries /\ [][NextUserRace]_vars

(* --------------------- interleaved farm requests ----------------------- *)
(* doc.save() of a Farm: every field of the in-memory document is written  *)
(* (Farm has no state management), and the document is inserted when it is *)
(* not stored                                                              *)
SavedFarm(F, id, doc) == [g \in DOMAIN F \cup {id} |-> IF g = id THEN doc ELSE F[g]]

(* the worker has answered and keeps the request it served *)
Answered(r, status) == [r EXCEPT !.pc = "idle", !.status = status]

(* share_farm up to the end of the loop "for e in add_n: await             *)
(* User.find_one(...)": the worker holds the document it read, the valid   *)
(* adds and the removes                                                    *)
farm_share_find(p, u, f, add, remove) ==
    /\ req[p] = Idle
    /\ req' = [req EXCEPT ![p] =
          IF auth_guard(u, FALSE, FALSE) # 200 THEN Done(auth_guard(u, FALSE, FALSE))
          ELSE IF FarmLookup(f) # 200 THEN Done(FarmLookup(f))
          ELSE IF ~IsOwner(u, farms[f]) THEN Done(403)
          ELSE At("farm_share_save", "share_farm", "farm",
                  [id |-> f, farm |-> farms[f],
                   valid |-> valid_add(add_n(add, u.email)),
                   remove_n |-> normalize_emails(remove)])]
    /\ UNCHANGED <<users, farms, recs, nextFarm, nextRec, resp>>

(* "doc.shared_with = sorted(current); await doc.save()" *)
farm_share_save(p) ==
    LET d == req[p].doc IN
    /\ Pending(p, "farm_share_save")
    /\ farms' = SavedFarm(farms, d.id,
                    [d.farm EXCEPT !.shared_with = new_shared(@, d.valid, d.remove_n)])
    /\ req' = [req EXCEPT ![p] = Answered(@, 200)]
    /\ UNCHANGED <<users, recs, nextFarm, nextRec, resp>>

(* update_farm up to "doc = await get_doc_by_id(Farm, entry_id)" and the   *)
(* setattr loop                                                            *)
farm_update_find(p, u, f, updates) ==
    /\ req[p] = Idle
    /\ req' = [req EXCEPT ![p] =
          IF auth_guard(u, FALSE, FALSE) # 200 THEN Done(auth_guard(u, FALSE, FALSE))
          ELSE IF FarmLookup(f) # 200 THEN Done(FarmLookup(f))
          ELSE IF ~IsOwner(u, farms[f]) THEN Done(403)
          ELSE At("farm_update_save", "update_farm", "farm",
                  [id |-> f, farm |-> apply_updates(farms[f], updates)])]
    /\ UNCHANGED <<users, farms, recs, nextFarm, nextRec, resp>>

(* "await doc.save()" of update_farm *)
farm_update_save(p) ==
    LET d == req[p].doc IN
    /\ Pending(p, "farm_update_save")
    /\ farms' = SavedFarm(farms, d.id, d.farm)
    /\ req' = [req EXCEPT ![p] = Answered(@, 200)]
    /\ UNCHANGED <<users, recs, nextFarm, nextRec, resp>>

(* SpecFarmRace: each of two workers serves one share_farm or update_farm  *)
(* request on the farms of InitFarms; the share requests add v, add r or   *)
(* remove b                                                                *)
RaceShares ==
    {[add |-> <<uv>>, remove |-> <<>>], [add |-> <<ur>>, remove |-> <<>>],
     [add |-> <<>>, remove |-> <<ub>>]}

NextFarmRace ==
    \/ \E p \in Procs, u \in users, f \in FarmIdInputs, sh \in RaceShares :
          farm_share_find(p, u, f, sh.add, sh.remove)
    \/ \E p \in Procs : farm_share_save(p)
    \/ \E p \in Procs, u \in users, f \in FarmIdInputs, up \in FarmUpdates :
          farm_update_find(p, u, f, up)
    \/ \E p \in Procs : farm_update_save(p)

SpecFarmRace == InitEntries /\ [][NextFarmRace]_vars

(* ----------------- create_entry interleaved with delete_farm ----------- *)
(* the order of the bulk deletes of delete_farm *)
CascadeOrder == <<"manure_score", "feed_dry_matter", "diet_cost">>

(* delete_farm up to "doc = await get_doc_by_id(Farm, entry_id)" and the   *)
(* owner gate                                                              *)
farm_delete_find(p, u, f) ==
    /\ Pending(p, "idle")
    /\ req' = [req EXCEPT ![p] =
          IF auth_guard(u, FALSE, FALSE) # 200 THEN Done(auth_guard(u, FALSE, FALSE))
          ELSE IF FarmLookup(f) # 200 THEN Done(FarmLookup(f))
          ELSE IF ~IsOwner(u, farms[f]) THEN Done(403)
          ELSE At("farm_delete_cascade", "delete_farm", "farm",
                  [id |-> f, todo |-> CascadeOrder])]
    /\ UNCHANGED <<users, farms, recs, nextFarm, nextRec, resp>>

(* one "await <Resource>.find(<Resource>.farm_id == entry_id).delete()" *)
farm_delete_cascade(p) ==
    LET d == req[p].doc IN
    /\ Pending(p, "farm_delete_cascade")
    /\ recs' = {x \in recs : ~(x.res = Head(d.todo) /\ x.farm_id = d.id)}
    /\ req' = [req EXCEPT ![p] =
          IF Tail(d.todo) = <<>>
          THEN At("farm_delete_doc", "delete_farm", "farm", [d EXCEPT !.todo = <<>>])
          ELSE [@ EXCEPT !.doc.todo = Tail(d.todo)]]
    /\ UNCHANGED <<users, farms, nextFarm, nextRec, resp>>

(* "await doc.delete()" of delete_farm *)
farm_delete_doc(p) ==
    /\ Pending(p, "farm_delete_doc")
    /\ farms' = [g \in DOMAIN farms \ {req[p].doc.id} |-> farms[g]]
    /\ req' = [req EXCEPT ![p] = Done(200)]
    /\ UNCHANGED <<users, recs, nextFarm, nextRec, resp>>

(* SpecOrphan: two workers serve create_entry requests for manure scores   *)
(* (a collection delete_farm removes from) and delete_farm requests        *)
NextOrphan ==
    \/ \E p \in Procs, u \in users : \E pl \in BasicPayloads("manure_score") :
          create_begin(p, u, "manure_score", pl)
    \/ \E p \in Procs : create_find(p)
    \/ \E p \in Procs : create_insert(p)
    \/ \E p \in Procs, u \in users, f \in FarmIdInputs : farm_delete_find(p, u, f)
    \/ \E p \in Procs : farm_delete_cascade(p)
    \/ \E p \in Procs : farm_delete_doc(p)

SpecOrphan == InitEntries /\ [][NextOrphan]_vars

(* ------------------------------ properties ----------------------------- *)
(* the read-authorization rule of farm id f for user u, as the             *)
(* specification words it; a farm that does not exist has neither owner    *)
(* nor shares                                                              *)
ReadRule(u, f) ==
    \/ u.is_admin
    \/ /\ f \in DOMAIN farms
       /\ (u.email = farms[f].owner_email \/ \E i \in DOMAIN farms[f].shared_with :
                                               farms[f].shared_with[i] = u.email)

(* the farms a user owns or is shared on *)
OwnedOrShared(u) ==
    {f \in DOMAIN farms :
        u.email = farms[f].owner_email
        \/ \E i \in DOMAIN farms[f].shared_with : farms[f].shared_with[i] = u.email}

(* the request was refused with Forbidden and changed nothing *)
Forbidden(o) ==
    o.status = 403 /\ o.body = <<>> /\ o.farms = farms /\ o.recs = recs

(* the set of normalized non-blank e-mails of a raw list *)
NormalSet(emails) ==
    {Lower(Strip(emails[i])) : i \in {k \in DOMAIN emails : Strip(emails[k]) # <<>>}}

(* C1: update_entry and delete_entry of an existing record by a user who   *)
(* does not pass the read rule of the record's farm (not admin, not owner, *)
(* not in shared_with) fail with Forbidden and leave the record unchanged. *)
C1_WritesGatedByFarmRead ==
    \A d \in recs : \A u \in users :
        (d.farm_id \in DOMAIN farms /\ ~ReadRule(u, d.farm_id)) =>
            /\ \A up \in Updates(d.res) : Forbidden(update_entry_out(u, d.res, d.id, up))
            /\ Forbidden(delete_entry_out(u, d.res, d.id))

C5_ListRestricted ==
    \A u \in users : ~u.is_admin =>
        \A res \in Resources, farm_id \in Opt(FarmIdInputs), a \in Opt(Dates) :
            \A k \in Opt(Discs(res) \ {"none"}) :
                \A o \in list_entries_outs(u, res, farm_id, k, a, a) :
                    /\ o.status = 200
                    /\ \A i \in DOMAIN o.body :
                          \E d \in Col(res) : d.id = o.body[i] /\ d.farm_id \in OwnedOrShared(u)
                    /\ (farm_id # {} /\ ~(farm_id \subseteq OwnedOrShared(u))) => o.body = <<>>
                    /\ farm_id = {} =>
                          Range(o.body) =
                              {d.id : d \in {e \in Col(res) :
                                  /\ e.farm_id \in OwnedOrShared(u)
                                  /\ \A x \in k : e.disc = x
                                  /\ \A x \in a : e.date = x}}
                    /\ OwnedOrShared(u) = {} => o.body = <<>>

C5_Witness ==
    /\ resp.op = "list_entries" /\ resp.status = 200 /\ resp.body = <<>>
    /\ \E u \in users : ~u.is_admin /\ OwnedOrShared(u) = {}
    /\ \E d, e \in recs : d.res = e.res /\ d.id # e.id /\ d.farm_id \in DOMAIN farms

(* C6: the farm access resolver answers UNRESTRICTED for an admin and, for *)
(* a non-admin, exactly the ids of the farms the user owns or is shared    *)
(* on; list_farms answers the same farms.                                  *)
C6_AccessResolverExact ==
    \A u \in users :
        /\ get_accessible_farm_ids(u) =
              IF u.is_admin THEN UNRESTRICTED ELSE OwnedOrShared(u)
        /\ \A o \in list_farms_outs(u) :
              /\ o.status = 200
              /\ Range(o.body) = IF u.is_admin THEN DOMAIN farms ELSE OwnedOrShared(u)

C6_Witness ==
    /\ resp.op = "list_farms" /\ resp.status = 200 /\ Len(resp.body) = 1
    /\ Cardinality(DOMAIN farms) = 2
    /\ \E u \in users : ~u.is_admin /\ \E f \in get_accessible_farm_ids(u) :
          farms[f].owner_email # u.email
    /\ \E u \in users : ~u.is_admin /\ \E f, g \in DOMAIN farms :
          f \in get_accessible_farm_ids(u) /\ g \notin get_accessible_farm_ids(u)

(* C7: update_farm, delete_farm and share_farm by any user whose e-mail is *)
(* not the farm's owner_email (an admin and a shared user included) fail   *)
(* with Forbidden and leave the farms and the measurement records          *)
(* unchanged.                                                              *)
C7_FarmMutationOwnerOnly ==
    \A f \in DOMAIN farms : \A u \in users :
        u.email # farms[f].owner_email =>
            /\ \A up \in FarmUpdates : Forbidden(update_farm_out(u, f, up))
            /\ \A faults \in SUBSET Cascaded : Forbidden(delete_farm_out(u, f, faults))
            /\ \A add \in ShareAdds, remove \in ShareRemoves :
                  Forbidden(share_farm_out(u, f, add, remove))

C7_Witness ==
    /\ resp.op \in {"update_farm", "delete_farm", "share_farm"} /\ resp.status = 403
    /\ \E f \in DOMAIN farms :
          /\ farms[f].owner_email \notin {ur, uv}
          /\ farms[f].shared_with # <<>>
          /\ \E d \in recs : d.farm_id = f

(* C8: a farm's owner_email is never a member of its shared_with. *)
C8_OwnerNotShared ==
    \A f \in DOMAIN farms :
        \A i \in DOMAIN farms[f].shared_with :
            farms[f].shared_with[i] # farms[f].owner_email

C8_Witness ==
    /\ resp.op = "share_farm" /\ resp.status = 200
    /\ \E f \in DOMAIN farms :
          /\ resp.body = <<f>>
          /\ farms[f].owner_email = ub
          /\ farms[f].shared_with = <<ua>>
          /\ share_farm_out(CHOOSE u \in users : u.email = ub, f,
                            << <<" ", "B">>, <<"a">> >>, <<>>).farms = farms

(* C9: a successful share_farm stores shared_with = (previous + valid      *)
(* adds) - removes, ascending and without duplicates, where the valid adds *)
(* are the normalized add e-mails other than the owner's that name a user; *)
(* an add that names no user is dropped, and an e-mail in both lists ends  *)
(* up absent.                                                              *)
C9_ShareResult ==
    \A f \in DOMAIN farms : \A u \in {w \in users : w.email = farms[f].owner_email} :
        \A add \in ShareAdds, remove \in ShareRemoves :
            LET o == share_farm_out(u, f, add, remove)
                previous == Range(farms[f].shared_with)
                valid_adds == {e \in NormalSet(add) :
                                  e # farms[f].owner_email /\ \E w \in users : w.email = e}
                removes == NormalSet(remove)
            IN /\ o.status = 200
               /\ DOMAIN o.farms = DOMAIN farms
               /\ Range(o.farms[f].shared_with) = (previous \cup valid_adds) \ removes
               /\ IsSortedNoDup(o.farms[f].shared_with)
               /\ \A e \in NormalSet(add) \cap removes :
                     e \notin Range(o.farms[f].shared_with)
               /\ \A e \in NormalSet(add) \ previous :
                     (~\E w \in users : w.email = e) =>
                         e \notin Range(o.farms[f].shared_with)
               /\ \A g \in DOMAIN farms \ {f} : o.farms[g] = farms[g]
               /\ [o.farms[f] EXCEPT !.shared_with = <<>>]
                     = [farms[f] EXCEPT !.shared_with = <<>>]
               /\ o.recs = recs

C9_Witness ==
    /\ resp.op = "share_farm" /\ resp.status = 200
    /\ \E f \in DOMAIN farms :
          /\ resp.body = <<f>>
          /\ farms[f].shared_with = <<ua, ub>>

(* C10: delete_farm by the owner leaves no measurement record of the       *)
(* deleted farm in any dependent collection.                               *)
C10_CascadeComplete ==
    \A f \in DOMAIN farms : \A u \in users :
        LET o == delete_farm_out(u, f, {}) IN
        o.status = 200 =>
            /\ f \notin DOMAIN o.farms
            /\ \A d \in o.recs : d.farm_id # f

(* C2: no two persisted records of one resource have the same (farm_id,   *)
(* date, discriminator).                                                   *)
C2_UniqueTuple ==
    \A d, e \in recs : (d.res = e.res /\ KeyOf(d) = KeyOf(e)) => d = e

(* C3: when two create requests for the same tuple of one resource, with  *)
(* their pre-check and insert steps interleaved, have both been answered,  *)
(* exactly one was answered 200 and the other 409 (Conflict), and exactly  *)
(* one record is persisted; for every resource, manure score included.     *)
C3_OneCreateWins ==
    (\A p \in Procs : req[p].pc = "idle") =>
        /\ \E p \in Procs : req[p].status = 200 /\ \A q \in Procs \ {p} : req[q].status = 409
        /\ Cardinality(recs) = 1

(* ------------------ properties of the measurement writes --------------- *)
(* a ratio in percent as the specification words it: 100 * num / den, and  *)
(* 0 when the denominator is 0 or an operand is missing                    *)
RuleRatio(num, den) ==
    IF num = None \/ den = None \/ den = 0 THEN Zero ELSE Frac(100 * num, den)

(* supply_deviation_pct as the specification words it *)
RuleSupplyDeviation(planned, sup_total) ==
    IF sup_total # 0 /\ planned # None
    THEN Frac(100 * (planned - sup_total), sup_total)
    ELSE Zero

(* loading_deviation_pct as the specification words it *)
RuleLoadingDeviation(man_total, planned) ==
    IF planned # None /\ planned # 0
    THEN Frac(100 * (man_total - planned), planned)
    ELSE Zero

(* time_without_use_days as the specification words it *)
RuleDaysWithoutUse(date_val, closing) ==
    IF date_val = None \/ closing = None THEN 0
    ELSE IF closing > date_val THEN 0 ELSE date_val - closing

(* the derived-metrics rule: the cached fields of a record, from its raw   *)
(* inputs, as the specification words them                                 *)
RuleDerived(d) ==
    CASE d.res = "diet_cost" ->
           [cost_mn_per_phase |->
               IF d.cost_mn_per_ton = None \/ d.time_in_diet_days = None THEN 0
               ELSE d.cost_mn_per_ton * d.time_in_diet_days]
      [] d.res = "manure_score" ->
           [total |-> OrZero(d.score_2) + OrZero(d.score_3)]
      [] d.res = "factory" ->
           LET man == OrZero(d.manufacturing_adaptation) + OrZero(d.manufacturing_growth)
               sup == OrZero(d.supply_adaptation) + OrZero(d.supply_growth)
           IN [manufacturing_day_total |-> man,
               loading_deviation_pct |->
                   RuleLoadingDeviation(man, d.planned_manufacturing_total),
               supply_day_total |-> sup,
               adaptation_ratio_pct |->
                   RuleRatio(d.supply_adaptation, d.manufacturing_adaptation),
               growth_ratio_pct |-> RuleRatio(d.supply_growth, d.manufacturing_growth),
               day_ratio_pct |-> RuleRatio(sup, man),
               supply_deviation_pct |->
                   RuleSupplyDeviation(d.planned_supply_total, sup)]
      [] d.res = "feed_dry_matter" -> [k \in {} |-> 0]
      [] d.res = "storage_inspection" ->
           [time_without_use_days |-> RuleDaysWithoutUse(d.date, d.closing_date)]

(* the users that pass the guard of the writing endpoints *)
MayWrite(u) == auth_guard(u, FALSE, FALSE) = 200

(* the record with this id among R *)
RecOf(R, id) == CHOOSE d \in R : d.id = id

(* C11: every persisted record's cached derived fields equal the           *)
(* derived-metrics rule applied to the raw inputs persisted with it (for a *)
(* diet cost: cost_mn_per_phase = cost_mn_per_ton x time_in_diet_days,     *)
(* also after an update of time_in_diet_days).                             *)
C11_DerivedCurrent ==
    \A d \in recs : \A k \in DOMAIN RuleDerived(d) : d[k] = RuleDerived(d)[k]

(* C12: create_entry by a non-admin user who is neither the owner of the   *)
(* referenced farm nor in its shared_with persists no record.              *)
C12_CreateNeedsFarmAccess ==
    \A u \in users, res \in Resources : \A p \in PlainPayloads(res) :
        (~u.is_admin /\ p.farm_id \in DOMAIN farms /\ ~ReadRule(u, p.farm_id)) =>
            create_entry_out(u, res, p).recs = recs

(* C13: create_entry with an existing farm and a (farm_id, date,           *)
(* discriminator) that no record has succeeds, persists exactly one new    *)
(* record that carries the payload's raw inputs, and answers its read-view *)
(* with the derived fields; for every resource, diet cost included.        *)
C13_CreateSucceeds ==
    \A u \in users, res \in Resources : \A p \in PlainPayloads(res) :
        (/\ MayWrite(u)
         /\ nextRec <= MaxRecs
         /\ p.farm_id \in DOMAIN farms
         /\ ~\E e \in Col(res) : KeyOf(e) = KeyOf(p)) =>
            LET o == create_entry_out(u, res, p) IN
            /\ o.status = 200
            /\ o.farms = farms
            /\ Cardinality(o.recs \ recs) = 1
            /\ recs \subseteq o.recs
            /\ \A d \in o.recs \ recs :
                  /\ d.res = res
                  /\ \A k \in DOMAIN p : d[k] = p[k]
                  /\ o.body = <<d.id>>
                  /\ \A k \in DOMAIN RuleDerived(d) : k \in DOMAIN ReadView(d)

(* C14: an update that leaves the record's own key unchanged succeeds and  *)
(* stores the updated record; an update whose resulting key is the key of  *)
(* another record of the resource fails with Conflict and leaves both      *)
(* records unchanged.                                                      *)
C14_UpdateKeyRule ==
    \A d \in recs : \A u \in users : \A up \in Updates(d.res) :
        MayWrite(u) =>
            LET e == apply_updates(d, up)
                o == update_entry_out(u, d.res, d.id, up)
            IN
            /\ KeyOf(e) = KeyOf(d) =>
                  /\ o.status = 200
                  /\ o.body = <<d.id>>
                  /\ \A k \in DOMAIN up : RecOf(o.recs, d.id)[k] = up[k]
                  /\ {x \in o.recs : x.id # d.id} = recs \ {d}
            /\ (\E x \in Col(d.res) : x.id # d.id /\ KeyOf(x) = KeyOf(e)) =>
                  o = Fail(409)

C18_RatiosTotal ==
    \A d \in recs : \A u \in users : \A up \in RawUpdates(d.res) :
        MayWrite(u) =>
            LET o == update_entry_out(u, d.res, d.id, up)
                e == RecOf(o.recs, d.id)
            IN
            /\ o.status = 200
            /\ ~ReadRaises(e)
            /\ d.res = "manure_score" =>
                  /\ (e.score_2 = None \/ _to_read(e).total = 0) => _to_read(e).pct_2 = 0
                  /\ (e.score_3 = None \/ _to_read(e).total = 0) => _to_read(e).pct_3 = 0
            /\ d.res = "factory" =>
                  /\ (e.supply_adaptation = None \/ OrZero(e.manufacturing_adaptation) = 0)
                        => e.adaptation_ratio_pct = Zero
                  /\ (e.supply_growth = None \/ OrZero(e.manufacturing_growth) = 0)
                        => e.growth_ratio_pct = Zero
                  /\ e.manufacturing_day_total = 0 => e.day_ratio_pct = Zero
                  /\ e.supply_day_total = 0 => e.supply_deviation_pct = Zero
                  /\ OrZero(e.planned_manufacturing_total) = 0
                        => e.loading_deviation_pct = Zero

(* C19: a persisted factory record has supply_deviation_pct =              *)
(* 100 * (planned_supply_total / supply_day_total - 1) when                *)
(* supply_day_total # 0 and planned_supply_total is present (0 included),  *)
(* and 0 when supply_day_total = 0; loading_deviation_pct =                *)
(* 100 * (manufacturing_day_total / planned_manufacturing_total - 1) when  *)
(* planned_manufacturing_total # 0, else 0.                                *)
C19_FactoryDeviations ==
    \A d \in Col("factory") :
        LET man == _sum3(d.manufacturing_adaptation, d.manufacturing_growth, 0)
            sup == _sum3(d.supply_adaptation, d.supply_growth, 0)
        IN
        /\ d.supply_deviation_pct = RuleSupplyDeviation(d.planned_supply_total, sup)
        /\ d.loading_deviation_pct =
              RuleLoadingDeviation(man, d.planned_manufacturing_total)

(* C20: a persisted storage inspection has time_without_use_days =         *)
(* max(0, date - closing_date) in days: 0 when closing_date is later than  *)
(* date or missing, never negative; the rule gives 0 when either date is   *)
(* missing.                                                                *)
C20_DaysWithoutUse ==
    /\ \A d \in Col("storage_inspection") :
          /\ d.time_without_use_days = RuleDaysWithoutUse(d.date, d.closing_date)
          /\ d.time_without_use_days >= 0
          /\ \A u \in users : \A up \in RawUpdates(d.res) :
                MayWrite(u) =>
                    LET o == update_entry_out(u, d.res, d.id, up)
                        e == RecOf(o.recs, d.id)
                    IN /\ o.status = 200
                       /\ e.closing_date = up.closing_date
                       /\ e.time_without_use_days =
                             RuleDaysWithoutUse(e.date, e.closing_date)
    /\ \A x \in {None} \cup (0..(MaxDate + 1)) :
          /\ _compute_days_without_use(None, x) = 0
          /\ _compute_days_without_use(x, None) = 0

C20_Witness ==
    /\ resp.op = "update_entry" /\ resp.status = 200
    /\ \E d \in Col("storage_inspection") :
          /\ resp.body = <<d.id>>
          /\ d.closing_date # None
          /\ d.closing_date > d.date
          /\ d.time_without_use_days = 0

(* ------------------- properties of the user accounts ------------------- *)
(* the user request was refused with Forbidden and changed nothing *)
UForbidden(o) == o = UFail(403)

(* the ids of the administrators among the user documents U *)
Admins(U) == {x.id : x \in {y \in U : y.is_admin}}

(* C21: every endpoint that mutates persisted data (create, update,        *)
(* delete, share on farms and measurement records, update and delete of    *)
(* users) rejects an admitted user whose read_only flag is true with       *)
(* Forbidden and leaves the state unchanged.                               *)
C21_ReadOnlyNeverWrites ==
    \A u \in users : (u.read_only /\ u.is_active /\ u.is_authorized) =>
        /\ \A n \in Names : Forbidden(create_farm_out(u, n))
        /\ \A f \in FarmIdInputs :
              /\ \A up \in FarmUpdates : Forbidden(update_farm_out(u, f, up))
              /\ Forbidden(delete_farm_out(u, f, {}))
              /\ \A add \in AddLists, remove \in RemoveLists :
                    Forbidden(share_farm_out(u, f, add, remove))
        /\ \A res \in Resources :
              /\ \A p \in PlainPayloads(res) : Forbidden(create_entry_out(u, res, p))
              /\ \A id \in {BadId} \cup RecIds :
                    /\ \A up \in SingleUpdates(res) :
                          Forbidden(update_entry_out(u, res, id, up))
                    /\ Forbidden(delete_entry_out(u, res, id))
        /\ \A e \in Emails :
              /\ \A up \in UserUpdates :
                    /\ \A o \in update_user_outs(u, e, up) : UForbidden(o)
                    /\ \A o \in admin_update_user_outs(u, e, up) : UForbidden(o)
              /\ \A pw \in Passwords : \A o \in delete_user_outs(u, e, pw) : UForbidden(o)
              /\ \A o \in admin_delete_user_outs(u, e) : UForbidden(o)

(* C25: no request of a non-admin user, and no request without a user,     *)
(* leaves a User document with is_admin = true that was not one before.    *)
C25_AdminOnlyByAdmin ==
    /\ \A payload \in UserCreates :
          Admins(create_user_out(payload).users) \subseteq Admins(users)
    /\ \A cu \in users : ~cu.is_admin =>
          \A e \in Emails :
              /\ \A up \in UserUpdates : \A o \in update_user_outs(cu, e, up) :
                    Admins(o.users) \subseteq Admins(users)
              /\ \A up \in AdminUserUpdates : \A o \in admin_update_user_outs(cu, e, up) :
                    Admins(o.users) \subseteq Admins(users)
              /\ \A pw \in Passwords : \A o \in delete_user_outs(cu, e, pw) :
                    Admins(o.users) \subseteq Admins(users)
              /\ \A o \in admin_delete_user_outs(cu, e) :
                    Admins(o.users) \subseteq Admins(users)

(* C22: no two User documents have the same e-mail, in every state reached *)
(* by interleaved create_user and admin_update_user (new_email) requests;  *)
(* a create_user for a registered e-mail is rejected and stores nothing.   *)
C22_UniqueEmail ==
    /\ \A x, y \in users : x.email = y.email => x = y
    /\ \A payload \in UserCreates :
          FindUsers(payload.email) # {} => create_user_out(payload) = UFail(400)

(* the share_farm requests that were completed: the documents their        *)
(* workers hold                                                            *)
CompletedShares ==
    {req[p].doc : p \in {q \in Procs : req[q].op = "share_farm" /\ req[q].status = 200}}

(* C23: when the interleaved share_farm and update_farm requests on a farm *)
(* have all been answered, its shared_with holds every e-mail a completed  *)
(* share_farm added (and none removed) and no e-mail a completed           *)
(* share_farm removed (and none added).                                    *)
C23_NoLostShare ==
    (\A p \in Procs : req[p].pc = "idle") =>
        \A d \in CompletedShares :
            LET others == {x \in CompletedShares : x.id = d.id} IN
            /\ \A e \in Range(d.valid) :
                  (\A x \in others : e \notin Range(x.remove_n)) =>
                      e \in Range(farms[d.id].shared_with)
            /\ \A e \in Range(d.remove_n) :
                  (\A x \in others : e \notin Range(x.valid)) =>
                      e \notin Range(farms[d.id].shared_with)

(* C24: in every state reached by create_entry requests interleaved with   *)
(* delete_farm requests, the farm_id of each persisted measurement record  *)
(* is the id of an existing farm.                                          *)
C24_NoOrphanRecord ==
    \A d \in recs : d.farm_id \in DOMAIN farms

(* ------------------- properties of revocation and frames --------------- *)
(* user u reads nothing of farm f: get_farm and get_entry of its records   *)
(* answer Forbidden, and no list includes one of its records               *)
NoAccess(u, f) ==
    /\ Forbidden(get_farm_out(u, f))
    /\ \A d \in recs : d.farm_id = f => Forbidden(get_entry_out(u, d.res, d.id))
    /\ \A res \in Resources, farm_id \in Opt(FarmIdInputs) :
          \A o \in list_entries_outs(u, res, farm_id, {}, {}, {}) :
              /\ o.status = 200
              /\ \A i \in DOMAIN o.body : RecOf(recs, o.body[i]).farm_id # f

(* the step took the e-mail of u out of the shared_with of farm f *)
Revoked(u, f) ==
    /\ f \in DOMAIN farms /\ f \in DOMAIN farms'
    /\ u.email \in Range(farms[f].shared_with)
    /\ u.email \notin Range(farms'[f].shared_with)

(* C26: a completed share_farm that removes e-mail e leaves e out of the   *)
(* farm's shared_with; after the step that revokes it, and in every state  *)
(* in which e is not shared, the non-admin non-owner user with e-mail e    *)
(* gets Forbidden from get_farm and get_entry and no record of the farm    *)
(* from any list.                                                          *)
C26_RevocationTakesEffect ==
    /\ [](\A f \in DOMAIN farms : \A u \in users :
             u.email = farms[f].owner_email =>
                 \A add \in AddLists, remove \in RemoveLists \cup {<<uv>>} :
                     LET o == share_farm_out(u, f, add, remove) IN
                     o.status = 200 =>
                         \A e \in NormalSet(remove) :
                             e \notin Range(o.farms[f].shared_with))
    /\ [][\A u \in users, f \in FarmIds :
             (Revoked(u, f) /\ ~u.is_admin /\ u.email # farms'[f].owner_email)
                 => NoAccess(u, f)']_vars
    /\ [](\A f \in DOMAIN farms : \A u \in users :
             (/\ ~u.is_admin
              /\ u.email # farms[f].owner_email
              /\ u.email \notin Range(farms[f].shared_with)) => NoAccess(u, f))

C26_Witness ==
    /\ resp.op = "get_entry" /\ resp.status = 403
    /\ 1 \in DOMAIN farms /\ farms[1].shared_with = <<>>
    /\ \E d \in recs : d.farm_id = 1 /\ \E u \in users :
          u.email = ub /\ ~u.is_admin /\ NoAccess(u, 1)

(* ---- the field validators of the Factory model ---- *)

(* Factory._ensure_manuf_total: _sum3 of the manufacturing phases in       *)
(* info.data (the fields declared before the validated one)                *)
_ensure_manuf_total(d) ==
    _sum3(d.manufacturing_adaptation, d.manufacturing_growth, 0)

(* Factory._ensure_loading_dev: 0.0 if "planned is None or                 *)
(* float(planned) == 0", else 100.0 * ((total / planned) - 1.0)            *)
_ensure_loading_dev(d) ==
    LET total == _sum3(d.manufacturing_adaptation, d.manufacturing_growth, 0)
        planned == d.planned_manufacturing_total
    IN IF planned = None \/ planned = 0 THEN Zero
       ELSE Frac(100 * (total - planned), planned)

(* Factory._ensure_supply_total *)
_ensure_supply_total(d) == _sum3(d.supply_adaptation, d.supply_growth, 0)

(* Factory._ensure_ratios, by info.field_name *)
_ensure_ratios(field_name, d) ==
    CASE field_name = "adaptation_ratio_pct" ->
           pct_ratio(d.supply_adaptation, d.manufacturing_adaptation)
      [] field_name = "growth_ratio_pct" ->
           pct_ratio(d.supply_growth, d.manufacturing_growth)
      [] OTHER ->
           pct_ratio(_sum3(d.supply_adaptation, d.supply_growth, 0),
                     _sum3(d.manufacturing_adaptation, d.manufacturing_growth, 0))

(* the Factory document the model's validation builds from data that holds *)
(* every field (a document read from the collection): each cached field is *)
(* replaced by what its validator returns                                  *)
FactoryValidated(d) ==
    [d EXCEPT
       !.manufacturing_day_total = _ensure_manuf_total(d),
       !.loading_deviation_pct = _ensure_loading_dev(d),
       !.supply_day_total = _ensure_supply_total(d),
       !.adaptation_ratio_pct = _ensure_ratios("adaptation_ratio_pct", d),
       !.growth_ratio_pct = _ensure_ratios("growth_ratio_pct", d),
       !.day_ratio_pct = _ensure_ratios("day_ratio_pct", d),
       !.supply_deviation_pct =
           _ensure_supply_dev(d.planned_supply_total,
                              _sum3(d.supply_adaptation, d.supply_growth, 0))]

(* C27: the field validators of the Factory model and _recompute of the    *)
(* controller compute the same derived fields: for every persisted factory *)
(* record whose phase inputs are numbers (planned totals 0 and absent      *)
(* included), validating the record and recomputing it give the same       *)
(* manufacturing_day_total, supply_day_total, ratio percentages,           *)
(* loading_deviation_pct and supply_deviation_pct                          *)
C27_ValidatorsAgree ==
    \A d \in Col("factory") :
        ~ConstructRaises("factory", d) => FactoryValidated(d) = _recompute(d)

(* the part of C27 that holds: all derived fields but supply_deviation_pct *)
C27_AgreeButSupplyDeviation ==
    \A d \in Col("factory") :
        ~ConstructRaises("factory", d) =>
            [FactoryValidated(d) EXCEPT !.supply_deviation_pct = Zero]
                = [_recompute(d) EXCEPT !.supply_deviation_pct = Zero]

(* C28: once a farm is deleted, no non-admin user reads a measurement      *)
(* record that still references it: for every stored record whose farm_id  *)
(* names no farm and every user that is not an admin, get_entry of the     *)
(* record answers 403 and changes nothing, and no answer of list_entries,  *)
(* whatever its filters, includes the record                               *)
C28_DeletedFarmUnreadable ==
    \A d \in recs : d.farm_id \notin DOMAIN farms =>
        \A u \in users : ~u.is_admin =>
            /\ Forbidden(get_entry_out(u, d.res, d.id))
            /\ \A f \in Opt(FarmIdInputs), disc \in Opt(Discs(d.res)) :
                 \A s \in Opt(Dates), e \in Opt(Dates) :
                    \A o \in list_entries_outs(u, d.res, f, disc, s, e) :
                        d.id \notin Range(o.body)

(* get_entry has just refused a record whose farm was deleted: every       *)
(* stored record references a deleted farm and the answer is 403           *)
C28_Witness ==
    /\ resp.op = "get_entry"
    /\ resp.status = 403
    /\ recs # {}
    /\ \A d \in recs : d.farm_id \notin DOMAIN farms

(* C29: update_farm never changes a farm's owner_email or shared_with,     *)
(* share_farm changes no farm field other than shared_with, and neither    *)
(* changes a measurement record: for every user, farm id and input, the    *)
(* outcome of update_farm keeps the set of farms, each farm's owner_email  *)
(* and shared_with, and the records; the outcome of share_farm keeps the   *)
(* set of farms, every field of each farm but shared_with, and the records *)
C29_FarmFrames ==
    /\ \A u \in users, f \in FarmIdInputs, up \in FarmUpdates :
          LET o == update_farm_out(u, f, up) IN
          /\ o.recs = recs
          /\ DOMAIN o.farms = DOMAIN farms
          /\ \A g \in DOMAIN farms :
                /\ o.farms[g].owner_email = farms[g].owner_email
                /\ o.farms[g].shared_with = farms[g].shared_with
    /\ \A u \in users, f \in FarmIdInputs, add \in AddLists, remove \in RemoveLists :
          LET o == share_farm_out(u, f, add, remove) IN
          /\ o.recs = recs
          /\ DOMAIN o.farms = DOMAIN farms
          /\ \A g \in DOMAIN farms :
                [o.farms[g] EXCEPT !.shared_with = farms[g].shared_with] = farms[g]

(* update_farm has just succeeded on a farm that is shared with somebody   *)
(* (share_farm acted before), while a measurement record is stored         *)
C29_Witness ==
    /\ resp.op = "update_farm"
    /\ resp.status = 200
    /\ farms[resp.body[1]].shared_with # <<>>
    /\ recs # {}

====
